---------------------------- MODULE Spec2Model ----------------------------
(***************************************************************************)
(* Model of the IPv6 connectivity checker of areweipv6yet                  *)
(* (scripts/check-ipv6.js): the run loop of main(), the derivation of the  *)
(* hostnames to probe, the reconciliation of the probe outcomes into the   *)
(* tests of each service, the status inference and the write-back of       *)
(* data/services.yaml.                                                     *)
(*                                                                         *)
(* Representation.                                                         *)
(*  - A hostname is the sequence of its labels ("www.a.b" is               *)
(*    <<"www","a","b">>), so that startsWith('www.'), substring(4) and     *)
(*    split('.') are computed on it.  The empty sequence stands for JS     *)
(*    null (no hostname).                                                  *)
(*  - service.url is represented by the hostname of the URL; the empty     *)
(*    sequence is a string that new URL() cannot parse.                    *)
(*  - Test.result is "true", "false" or "null" (JS true / false / null).   *)
(*  - A reference to a test object held by main() (apexTest, wwwTest) is   *)
(*    the index of that object in service.ipv6.tests, 0 for undefined.     *)
(*  - Timestamps are integers; 0 is an older (or null) last_checked.       *)
(***************************************************************************)
EXTENDS Integers, Sequences, FiniteSets, TLC

VARIABLES
    store,        \* data/services.yaml on disk
    data,         \* the registry as loaded and mutated by main()
    loaded,       \* history: the registry as it was loaded by this run
    pc,           \* position of main()
    idx,          \* position of the for-of loop over data.services
    updated,      \* main(): let updated
    now,          \* main(): const now
    clock,        \* wall clock read by new Date()
    domains,      \* loop body: const domains
    apexInfo,     \* loop body: const apexInfo
    wwwInfo,      \* loop body: const wwwInfo
    dirty,        \* history: services for which serviceUpdated ended true
    warnings,     \* console: services with a printed status mismatch
    writes,       \* history: number of fs.writeFile calls of this run
    run,          \* history: number of the run (process invocation)
    prev,         \* history: what is kept of the run before this one
    verboseMode,  \* --verbose
    detailMode,   \* --detail
    probes,       \* the DNS and HTTP probes awaited by the loop body
    exitCode,     \* exit status of the process, Running until it ends
    request,      \* workers/index.js: request.url of the request in hand
    response,     \* workers/index.js: the Response returned by fetch()
    redirects     \* history: 301 responses the client has followed

vars == <<store, data, loaded, pc, idx, updated, now, clock, domains,
          apexInfo, wwwInfo, dirty, warnings, writes, run, prev,
          verboseMode, detailMode, probes, exitCode, request, response,
          redirects>>

-----------------------------------------------------------------------------
(* Bounds *)

MaxTests == 2
MaxServices == 2
MaxRuns == 2
MaxLabels == 4
MaxLate == 1

\* redirects a client follows before it gives up
MaxRedirects == 3

-----------------------------------------------------------------------------
(* Values *)

NoHost == <<>>
BadUrl == <<>>

Statuses == {"unknown", "none", "partial", "full"}
Results == {"true", "false", "null"}

CurrentIds == {"apex_domain", "www_domain"}
LegacyIds == {"aaaa_record", "www_variant"}
OtherIds == {"ipv6_only"}
TestIds == CurrentIds \cup LegacyIds \cup OtherIds

ApexName == "Apex Domain"
ApexDescription == "Apex domain works over IPv6 (both DNS and HTTP connectivity)"
WwwName == "WWW Domain"
WwwDescription == "WWW domain works over IPv6 (both DNS and HTTP connectivity)"

\* name and description a test carries in the store before the run
StoredName(id) ==
    CASE id = "apex_domain" -> ApexName
      [] id = "www_domain" -> WwwName
      [] id = "aaaa_record" -> "IPv6 Address"
      [] id = "www_variant" -> "WWW Variant"
      [] OTHER -> "IPv6 Only"

StoredDescription(id) ==
    CASE id = "apex_domain" -> ApexDescription
      [] id = "www_domain" -> WwwDescription
      [] id = "aaaa_record" -> "Main domain has IPv6 addresses (AAAA records)"
      [] id = "www_variant" -> "WWW variant has IPv6 addresses"
      [] OTHER -> "Works on an IPv6-only network"

B2R(b) == IF b THEN "true" ELSE "false"
Truthy(r) == r = "true"


-----------------------------------------------------------------------------
(* The registries a run can load *)

StoredTest(id, result) ==
    [id |-> id, name |-> StoredName(id),
     description |-> StoredDescription(id), result |-> result]

\* the probe tests with any stored result, and a manually kept test
StoredTests ==
    {StoredTest(id, r) : id \in CurrentIds \cup LegacyIds, r \in Results}
        \cup {StoredTest(id, "true") : id \in OtherIds}

UniqueIds(tests) ==
    \A i, j \in 1..Len(tests) : tests[i].id = tests[j].id => i = j

\* ipv6.tests arrays of at most n tests with pairwise distinct ids
TestLists(n) ==
    {t \in UNION {[1..k -> StoredTests] : k \in 0..n} : UniqueIds(t)}

\* hostnames of every shape getDomainVariants distinguishes
Hostnames ==
    {<<"a">>, <<"a", "b">>, <<"www", "a", "b">>, <<"s", "a", "b">>,
     <<"www", "s", "a", "b">>}

Urls == Hostnames \cup {BadUrl}

\* the hostname of the service the special case is written for
AzureHost == <<"azure", "microsoft", "com">>

Service(id, url, status, tests) ==
    [id |-> id, name |-> "Service", url |-> url, category |-> "cloud",
     description |-> "A service",
     ipv6 |-> [status |-> status, notes |-> "note", last_checked |-> 0,
               tests |-> tests]]

\* a service with any url, status and stored tests, and the service
\* azure with any status and stored tests
Services(n) ==
    {Service("svc", url, status, tests) :
        url \in Urls, status \in Statuses, tests \in TestLists(n)}
        \cup {Service("azure", AzureHost, status, tests) :
                 status \in Statuses, tests \in TestLists(n)}

\* services without override, with an unknown or a curated status
PlainServices(n) ==
    {Service("svc", url, status, tests) :
        url \in Urls, status \in {"unknown", "full"},
        tests \in TestLists(n)}

\* services of the shapes that decide whether a run is dirty or aborts
CoreServices ==
    {Service("svc", url, status, tests) :
        url \in {<<"a", "b">>, <<"s", "a", "b">>, BadUrl},
        status \in {"unknown", "full"},
        tests \in {<<>>, <<StoredTest("apex_domain", "false")>>}}

SeqsUpTo(S, n) == UNION {[1..k -> S] : k \in 1..n}

-----------------------------------------------------------------------------
(* yaml.load / yaml.dump with the header comment of data/services.yaml *)

YamlLoad(file) == file.doc

YamlDump(d) == [header |-> FALSE, doc |-> d]

WithHeader(file) == [file EXCEPT !.header = TRUE]

-----------------------------------------------------------------------------
(* getDomainVariants *)

StartsWithWww(hostname) == Len(hostname) >= 2 /\ hostname[1] = "www"

\* variant of getDomainVariants: every hostname without the www. prefix
\* gets a www hostname, whatever its number of labels
getDomainVariantsAlwaysWww(urlStr) ==
    IF urlStr = BadUrl
    THEN [apex |-> NoHost, www |-> NoHost, providedForm |-> "null"]
    ELSE IF StartsWithWww(urlStr)
    THEN [apex |-> Tail(urlStr), www |-> urlStr, providedForm |-> "www"]
    ELSE [apex |-> urlStr, www |-> <<"www">> \o urlStr,
          providedForm |-> "apex"]

\* variant of getDomainVariants: the label count is tested before the
\* www. prefix
getDomainVariantsLabelsFirst(urlStr) ==
    IF urlStr = BadUrl
    THEN [apex |-> NoHost, www |-> NoHost, providedForm |-> "null"]
    ELSE IF Len(urlStr) > 2
    THEN [apex |-> urlStr, www |-> NoHost, providedForm |-> "subdomain"]
    ELSE IF StartsWithWww(urlStr)
    THEN [apex |-> Tail(urlStr), www |-> urlStr, providedForm |-> "www"]
    ELSE [apex |-> urlStr, www |-> <<"www">> \o urlStr,
          providedForm |-> "apex"]

getDomainVariants(urlStr) ==
    IF urlStr = BadUrl
    THEN [apex |-> NoHost, www |-> NoHost, providedForm |-> "null"]
    ELSE IF StartsWithWww(urlStr)
    THEN [apex |-> Tail(urlStr), www |-> urlStr, providedForm |-> "www"]
    ELSE IF Len(urlStr) > 2
    THEN [apex |-> urlStr, www |-> NoHost, providedForm |-> "subdomain"]
    ELSE [apex |-> urlStr, www |-> <<"www">> \o urlStr,
          providedForm |-> "apex"]

NoDomains == [apex |-> NoHost, www |-> NoHost, providedForm |-> "null"]

-----------------------------------------------------------------------------
(* checkDomain: the outcome of the AAAA lookup and of the IPv6 HTTP probe *)

Outcomes == [hasAAAA : BOOLEAN, httpWorks : BOOLEAN]

NoOutcome == [hasAAAA |-> FALSE, httpWorks |-> FALSE]

checkDomain(hostname, outcome) ==
    IF hostname = NoHost
    THEN [hostname |-> hostname, hasAAAA |-> FALSE, httpWorks |-> FALSE]
    ELSE [hostname |-> hostname, hasAAAA |-> outcome.hasAAAA,
          httpWorks |-> outcome.httpWorks]

NoInfo == [hostname |-> NoHost, hasAAAA |-> FALSE, httpWorks |-> FALSE]

-----------------------------------------------------------------------------
(* The three probes of a hostname, each seen as the event that settles it   *)
(* and the value the helper returns for that event                          *)

\* the addresses a successful lookup returns, never an empty list
Addresses == <<"addr1", "addr2", "addr3">>

DnsErrors == {"ENODATA"}
HttpErrors == {"ECONNREFUSED"}
StatusCodes == {200, 404}

\* dns.resolve6 / dns.resolve4: the promise fulfils with the addresses or
\* rejects with an error that carries a code
DnsEvents ==
    {[ok |-> TRUE, addresses |-> Addresses, code |-> "null"]}
        \cup {[ok |-> FALSE, addresses |-> <<>>, code |-> c] : c \in DnsErrors}

\* the first event of the HEAD request: a response, 'error' or 'timeout';
\* statusCode 0 stands for null
HttpEvents ==
    {[type |-> "response", statusCode |-> c, code |-> "null"] :
        c \in StatusCodes}
        \cup {[type |-> "error", statusCode |-> 0, code |-> c] :
                 c \in HttpErrors}
        \cup {[type |-> "timeout", statusCode |-> 0, code |-> "null"]}

\* variant of checkAAAARecord: the catch branch reports a record as well
checkAAAARecordNoCatch(ev) ==
    [hasRecord |-> TRUE, addresses |-> ev.addresses,
     error |-> IF ev.ok THEN "null" ELSE ev.code]

checkAAAARecord(ev) ==
    IF ev.ok
    THEN [hasRecord |-> TRUE, addresses |-> ev.addresses, error |-> "null"]
    ELSE [hasRecord |-> FALSE, addresses |-> <<>>, error |-> ev.code]

getARecord(ev) ==
    IF ev.ok
    THEN [hasRecord |-> TRUE, addresses |-> ev.addresses]
    ELSE [hasRecord |-> FALSE, addresses |-> <<>>]

testHTTPConnectivity(ev) ==
    CASE ev.type = "response" ->
             [success |-> TRUE, statusCode |-> ev.statusCode,
              error |-> "null"]
      [] ev.type = "error" ->
             [success |-> FALSE, statusCode |-> 0, error |-> ev.code]
      [] OTHER ->
             [success |-> FALSE, statusCode |-> 0, error |-> "TIMEOUT"]

\* variant of Resolve: a later call of resolve replaces the value of the
\* promise
ResolveLastWins(promise, ev, value) ==
    IF promise = <<>>
    THEN <<[event |-> ev, value |-> value]>>
    ELSE <<[event |-> promise[1].event, value |-> value]>>
             \o Tail(promise) \o <<[event |-> ev, value |-> value]>>

\* resolve(value) called by the handler of event ev, on the promise of
\* testHTTPConnectivity: the first call settles the promise (element 1:
\* that event and the value of the promise), a later call leaves the
\* promise as it is and is only remembered after it
Resolve(promise, ev, value) ==
    IF promise = <<>>
    THEN <<[event |-> ev, value |-> value]>>
    ELSE promise \o <<[event |-> ev, value |-> value]>>

\* the probes of one hostname: not issued for a null hostname; a probe is
\* <<>> while it is pending and, once its promise has settled, the one
\* element sequence of the event that settled it and of the value returned
SettledProbe(ev, value) == <<[event |-> ev, value |-> value]>>

NotIssued == [issued |-> FALSE, aaaa |-> <<>>, a |-> <<>>, http |-> <<>>]

ProbesOf(hostname) ==
    IF hostname = NoHost
    THEN NotIssued
    ELSE [issued |-> TRUE, aaaa |-> <<>>, a |-> <<>>, http |-> <<>>]

NoProbes == [apex |-> NotIssued, www |-> NotIssued]

\* main() lines 223-226: checkDomain is called for both hostnames at once
IssueProbes(d) == [apex |-> ProbesOf(d.apex), www |-> ProbesOf(d.www)]

\* variant of Settled: the promise of checkDomain for a null hostname is
\* never fulfilled
SettledWhenIssued(p) ==
    p.issued /\ p.aaaa # <<>> /\ p.a # <<>> /\ p.http # <<>>

\* Promise.all of checkDomain: all three probes of the hostname settled
Settled(p) == p.issued => (p.aaaa # <<>> /\ p.a # <<>> /\ p.http # <<>>)

\* Array.prototype.slice(0, n)
Slice(seq, n) == SubSeq(seq, 1, IF Len(seq) < n THEN Len(seq) ELSE n)

\* the object checkDomain returns once the probes p of hostname settled
DomainReport(hostname, p) ==
    IF hostname = NoHost
    THEN [hostname |-> hostname, hasAAAA |-> FALSE, hasA |-> FALSE,
          httpWorks |-> FALSE, error |-> "N/A", addresses |-> <<>>]
    ELSE [hostname |-> hostname,
          hasAAAA |-> p.aaaa[1].value.hasRecord,
          hasA |-> p.a[1].value.hasRecord,
          httpWorks |-> p.http[1].value.success,
          error |-> p.http[1].value.error,
          addresses |-> Slice(p.aaaa[1].value.addresses, 2)]

\* the two fields of that object that main() reads after the await
ProbedOutcome(hostname, p) ==
    [hasAAAA |-> DomainReport(hostname, p).hasAAAA,
     httpWorks |-> DomainReport(hostname, p).httpWorks]

\* process exit status while the process is running
Running == -1

-----------------------------------------------------------------------------
(* workers/index.js: the edge worker's fetch handler.  A URL string is the *)
(* sequence of its components; new URL() and toString() convert between    *)
(* it and the URL object.                                                  *)

\* const primaryDomain
primaryDomain == "areweipv6yet.com"

Protocols == {"http:", "https:"}

RequestHosts == {"areweipv6yet.com", "www.areweipv6yet.com", "areweipv6yet.net",
                 "www.areweipv6yet.org", "arewev6yet.com", "example.com"}

Pathnames == {"/", "/index.html", "/api.json", "/missing"}

Searches == {"", "?q=1"}

\* url.toString()
Href(url) == <<url.protocol, "//", url.hostname, url.pathname, url.search>>

\* new URL(href)
URL(href) ==
    [protocol |-> href[1], hostname |-> href[3], pathname |-> href[4],
     search |-> href[5]]

\* the values of request.url
Requests ==
    {Href([protocol |-> p, hostname |-> h, pathname |-> n, search |-> q]) :
        p \in Protocols, h \in RequestHosts, n \in Pathnames, q \in Searches}

NoRequest == <<>>

NoResponse == [status |-> 0, location |-> <<>>]

\* Response.redirect(href, status)
Redirect(href, status) == [status |-> status, location |-> href]

\* the files env.ASSETS serves
Assets == {"/index.html", "/api.json"}

\* the try block: the asset of the path (index.html for the root) with the
\* security headers, 404 from the binding for a missing file and 404 from
\* the catch when the binding throws
Serve(url, thrown) ==
    LET path == IF url.pathname = "/" THEN "/index.html" ELSE url.pathname
    IN  [status |-> IF ~thrown /\ path \in Assets THEN 200 ELSE 404,
         location |-> <<>>]

\* variant of fetch: the canonical host is the www host
fetchCanonicalWww(href, thrown) ==
    LET url == URL(href)
    IN  IF url.protocol = "http:"
        THEN Redirect(Href([url EXCEPT !.protocol = "https:"]), 301)
        ELSE IF url.hostname # primaryDomain
        THEN Redirect(Href([url EXCEPT
                               !.hostname = "www.areweipv6yet.com"]), 301)
        ELSE Serve(url, thrown)

\* async fetch(request, env, ctx), for request.url = href
fetch(href, thrown) ==
    LET url == URL(href)
    IN  IF url.protocol = "http:"
        THEN Redirect(Href([url EXCEPT !.protocol = "https:"]), 301)
        ELSE IF url.hostname # primaryDomain
        THEN Redirect(Href([url EXCEPT !.hostname = primaryDomain]), 301)
        ELSE Serve(url, thrown)

-----------------------------------------------------------------------------
(* Reconciliation of one service: the loop body of main() after the await.  *)
(* The steps work on r = [tests, apexTest, wwwTest, serviceUpdated], the    *)
(* array service.ipv6.tests and the locals of the loop body.                *)

\* Array.prototype.find(t => t.id === id), as an index (0: undefined)
FindTest(tests, id) ==
    IF \E i \in 1..Len(tests) : tests[i].id = id
    THEN CHOOSE i \in 1..Len(tests) :
            /\ tests[i].id = id
            /\ \A j \in 1..(i - 1) : tests[j].id # id
    ELSE 0

\* Array.prototype.splice(i, 1)
Splice(tests, i) ==
    [k \in 1..(Len(tests) - 1) |-> IF k < i THEN tests[k] ELSE tests[k + 1]]

FindTests(tests) ==
    [tests |-> tests,
     apexTest |-> FindTest(tests, "apex_domain"),
     wwwTest |-> FindTest(tests, "www_domain"),
     serviceUpdated |-> FALSE]

\* variant of MigrateApex: the legacy test is adopted but keeps its id
MigrateApexKeepsId(r) ==
    IF r.apexTest = 0 /\ FindTest(r.tests, "aaaa_record") # 0
    THEN LET m == FindTest(r.tests, "aaaa_record")
         IN  [r EXCEPT !.apexTest = m,
                       !.tests[m].name = ApexName,
                       !.tests[m].description = ApexDescription,
                       !.serviceUpdated = TRUE]
    ELSE r

MigrateApex(r) ==
    IF r.apexTest = 0 /\ FindTest(r.tests, "aaaa_record") # 0
    THEN LET m == FindTest(r.tests, "aaaa_record")
         IN  [r EXCEPT !.apexTest = m,
                       !.tests[m].id = "apex_domain",
                       !.tests[m].name = ApexName,
                       !.tests[m].description = ApexDescription,
                       !.serviceUpdated = TRUE]
    ELSE r

MigrateWww(r, d) ==
    IF r.wwwTest = 0 /\ d.www # NoHost /\ FindTest(r.tests, "www_variant") # 0
    THEN LET m == FindTest(r.tests, "www_variant")
         IN  [r EXCEPT !.wwwTest = m,
                       !.tests[m].id = "www_domain",
                       !.tests[m].name = WwwName,
                       !.tests[m].description = WwwDescription,
                       !.serviceUpdated = TRUE]
    ELSE r

\* variant of CreateApex: the new test is put in front (unshift) instead
\* of at the end (push)
CreateApexInFront(r) ==
    IF r.apexTest = 0
    THEN [r EXCEPT !.tests = <<[id |-> "apex_domain",
                                name |-> ApexName,
                                description |-> ApexDescription,
                                result |-> "null"]>> \o @,
                   !.apexTest = 1,
                   !.wwwTest = IF @ = 0 THEN 0 ELSE @ + 1]
    ELSE r

\* variant of CreateApex: the test is appended whether or not one was
\* found
CreateApexAlways(r) ==
    [r EXCEPT !.tests = Append(@, [id |-> "apex_domain",
                                   name |-> ApexName,
                                   description |-> ApexDescription,
                                   result |-> "null"]),
              !.apexTest = Len(r.tests) + 1]

CreateApex(r) ==
    IF r.apexTest = 0
    THEN [r EXCEPT !.tests = Append(@, [id |-> "apex_domain",
                                        name |-> ApexName,
                                        description |-> ApexDescription,
                                        result |-> "null"]),
                   !.apexTest = Len(r.tests) + 1]
    ELSE r

CreateWww(r, d) ==
    IF r.wwwTest = 0 /\ d.www # NoHost
    THEN [r EXCEPT !.tests = Append(@, [id |-> "www_domain",
                                        name |-> WwwName,
                                        description |-> WwwDescription,
                                        result |-> "null"]),
                   !.wwwTest = Len(r.tests) + 1]
    ELSE r

\* variant of ApexWorks: the special case is applied to every service
ApexWorksAnyService(service, aInfo) ==
    IF aInfo.hasAAAA
    THEN TRUE
    ELSE aInfo.hasAAAA /\ aInfo.httpWorks

\* variant of ApexWorks: the special case does not look at the AAAA
\* records
ApexWorksForced(service, aInfo) ==
    IF service.id = "azure"
    THEN TRUE
    ELSE aInfo.hasAAAA /\ aInfo.httpWorks

\* let apexWorks, with the special case for Azure
ApexWorks(service, aInfo) ==
    IF service.id = "azure" /\ aInfo.hasAAAA
    THEN TRUE
    ELSE aInfo.hasAAAA /\ aInfo.httpWorks

WwwWorks(wInfo) == wInfo.hasAAAA /\ wInfo.httpWorks

\* variant of UpdateApex: the results are compared loosely (!= instead of
\* !==), so that a null result counts as false
UpdateApexLoosely(r, apexWorks) ==
    IF Truthy(r.tests[r.apexTest].result) # apexWorks
    THEN [r EXCEPT !.tests[r.apexTest].result = B2R(apexWorks),
                   !.serviceUpdated = TRUE]
    ELSE r

\* variant of UpdateApex: the service is marked updated without a change
UpdateApexAlwaysDirty(r, apexWorks) ==
    [r EXCEPT !.tests[r.apexTest].result = B2R(apexWorks),
              !.serviceUpdated = TRUE]

UpdateApex(r, apexWorks) ==
    IF r.tests[r.apexTest].result # B2R(apexWorks)
    THEN [r EXCEPT !.tests[r.apexTest].result = B2R(apexWorks),
                   !.serviceUpdated = TRUE]
    ELSE r

\* variant of UpdateWww: a www test that does not apply is kept
UpdateWwwNoRemoval(r, d, wwwWorks) ==
    IF d.www # NoHost /\ r.wwwTest # 0
    THEN IF r.tests[r.wwwTest].result # B2R(wwwWorks)
         THEN [r EXCEPT !.tests[r.wwwTest].result = B2R(wwwWorks),
                        !.serviceUpdated = TRUE]
         ELSE r
    ELSE r

\* the update of the www test, or its removal when no www variant applies;
\* after the splice wwwTest refers to an object that is no longer in the
\* array and that the loop body does not read again (domains.www is null)
UpdateWww(r, d, wwwWorks) ==
    IF d.www # NoHost /\ r.wwwTest # 0
    THEN IF r.tests[r.wwwTest].result # B2R(wwwWorks)
         THEN [r EXCEPT !.tests[r.wwwTest].result = B2R(wwwWorks),
                        !.serviceUpdated = TRUE]
         ELSE r
    ELSE IF r.wwwTest # 0
    THEN [r EXCEPT !.tests = Splice(@, r.wwwTest),
                   !.apexTest = IF @ > r.wwwTest THEN @ - 1 ELSE @,
                   !.wwwTest = 0,
                   !.serviceUpdated = TRUE]
    ELSE r

\* lines 245-328: the tests of the service after reconciliation
ReconcileTests(service, d, aInfo, wInfo) ==
    UpdateWww(
        UpdateApex(
            CreateWww(CreateApex(MigrateWww(MigrateApex(
                FindTests(service.ipv6.tests)), d)), d),
            ApexWorks(service, aInfo)),
        d, WwwWorks(wInfo))

\* const hasWwwTest = domains.www && wwwTest
HasWwwTest(r, d) == d.www # NoHost /\ r.wwwTest # 0

WwwResult(r) == r.tests[r.wwwTest].result

\* the status rule applied when the stored status is unknown
InferStatus(apexWorks, hasWwwTest, wwwResult) ==
    IF apexWorks /\ (~hasWwwTest \/ Truthy(wwwResult))
    THEN "full"
    ELSE IF apexWorks \/ (hasWwwTest /\ Truthy(wwwResult))
    THEN "partial"
    ELSE "none"

\* variant of NewStatus: the stored status is not tested for unknown
NewStatusOverwrite(status, serviceUpdated, apexWorks, hasWwwTest, wwwResult) ==
    IF serviceUpdated
    THEN InferStatus(apexWorks, hasWwwTest, wwwResult)
    ELSE status

\* the status assignment of the loop body, made only for a dirty service
NewStatus(status, serviceUpdated, apexWorks, hasWwwTest, wwwResult) ==
    IF serviceUpdated /\ status = "unknown"
    THEN InferStatus(apexWorks, hasWwwTest, wwwResult)
    ELSE status

\* let suggestedStatus (detail mode)
SuggestedStatus(apexWorks, hasWwwTest, wwwResult) ==
    IF hasWwwTest
    THEN IF apexWorks /\ Truthy(wwwResult) THEN "full"
         ELSE IF apexWorks \/ Truthy(wwwResult) THEN "partial"
         ELSE "none"
    ELSE IF apexWorks THEN "full" ELSE "none"

\* variant of NewLastChecked: only an updated service gets the timestamp
NewLastCheckedDirtyOnly(serviceUpdated, old, t) ==
    IF serviceUpdated THEN t ELSE old

\* ipv6.last_checked after the loop body: both branches of
\* if (serviceUpdated) assign now
NewLastChecked(serviceUpdated, old, t) == IF serviceUpdated THEN t ELSE t

\* variant of ReconcileService: service.ipv6 is built anew from the three
\* fields the loop body computes, with empty notes
ReconcileServiceRebuilt(service, d, aInfo, wInfo, t) ==
    LET r == ReconcileTests(service, d, aInfo, wInfo)
        apexWorks == ApexWorks(service, aInfo)
        hasWwwTest == HasWwwTest(r, d)
        wwwResult == IF hasWwwTest THEN WwwResult(r) ELSE "null"
    IN  [service EXCEPT
            !.ipv6 = [status |-> NewStatus(service.ipv6.status,
                                           r.serviceUpdated, apexWorks,
                                           hasWwwTest, wwwResult),
                      notes |-> "",
                      last_checked |-> t,
                      tests |-> r.tests]]

\* the service after the loop body
ReconcileService(service, d, aInfo, wInfo, t) ==
    LET r == ReconcileTests(service, d, aInfo, wInfo)
        apexWorks == ApexWorks(service, aInfo)
        hasWwwTest == HasWwwTest(r, d)
        wwwResult == IF hasWwwTest THEN WwwResult(r) ELSE "null"
    IN  [service EXCEPT
            !.ipv6.tests = r.tests,
            !.ipv6.last_checked = NewLastChecked(r.serviceUpdated, @, t),
            !.ipv6.status = NewStatus(@, r.serviceUpdated, apexWorks,
                                      hasWwwTest, wwwResult)]

\* variant of ServiceUpdated: with --verbose every service counts as
\* updated
ServiceUpdatedWhenVerbose(service, d, aInfo, wInfo) ==
    verboseMode \/ ReconcileTests(service, d, aInfo, wInfo).serviceUpdated

ServiceUpdated(service, d, aInfo, wInfo) ==
    ReconcileTests(service, d, aInfo, wInfo).serviceUpdated

\* whether the loop body prints the status mismatch warning
StatusMismatch(service, d, aInfo, wInfo, detail) ==
    LET r == ReconcileTests(service, d, aInfo, wInfo)
        apexWorks == ApexWorks(service, aInfo)
        hasWwwTest == HasWwwTest(r, d)
        wwwResult == IF hasWwwTest THEN WwwResult(r) ELSE "null"
    IN  /\ r.serviceUpdated
        /\ detail
        /\ NewStatus(service.ipv6.status, TRUE, apexWorks, hasWwwTest,
                     wwwResult)
             # SuggestedStatus(apexWorks, hasWwwTest, wwwResult)

-----------------------------------------------------------------------------
(* The run: main() *)

\* one service of any shape, or up to MaxServices services of core shapes
Registries ==
    {<<s>> : s \in Services(MaxTests)} \cup SeqsUpTo(CoreServices, MaxServices)

InitRun(planned, registries, flags) ==
    /\ store \in {[header |-> TRUE, doc |-> [services |-> reg]] :
                     reg \in registries}
    /\ data = [services |-> <<>>]
    /\ loaded = [services |-> <<>>]
    /\ pc = "start"
    /\ idx = 0
    /\ updated = FALSE
    /\ now = 0
    /\ clock = 1
    /\ domains = NoDomains
    /\ apexInfo = NoInfo
    /\ wwwInfo = NoInfo
    /\ dirty = {}
    /\ warnings = {}
    /\ writes = 0
    /\ run = 1
    /\ prev = [planned |-> planned, seen |-> <<>>, completed |-> FALSE,
               produced |-> [services |-> <<>>], dirty |-> {}, writes |-> 0,
               flags |-> <<FALSE, FALSE>>]
    /\ verboseMode \in flags
    /\ detailMode \in flags
    /\ probes = NoProbes
    /\ exitCode = Running
    /\ request = NoRequest
    /\ response = NoResponse
    /\ redirects = 0

Init == InitRun(1, Registries, BOOLEAN)

\* lines 198-205: read and parse the store, let updated, const now
Load ==
    /\ pc = "start"
    /\ data' = YamlLoad(store)
    /\ loaded' = YamlLoad(store)
    /\ updated' = FALSE
    /\ now' = clock
    /\ idx' = 1
    /\ pc' = "loop"
    /\ UNCHANGED <<store, clock, domains, apexInfo, wwwInfo, dirty, warnings,
                   writes, run, prev, verboseMode, detailMode,
                   probes, exitCode,
                   request, response, redirects>>

\* lines 207-226: the loop body up to the await of the probes
LoopHead ==
    /\ pc = "loop"
    /\ idx <= Len(data.services)
    /\ data.services[idx].url # BadUrl
    /\ domains' = getDomainVariants(data.services[idx].url)
    /\ apexInfo' = NoInfo
    /\ wwwInfo' = NoInfo
    /\ pc' = "await"
    /\ probes' = IssueProbes(getDomainVariants(data.services[idx].url))
    /\ UNCHANGED <<store, data, loaded, idx, updated, now, clock, dirty,
                   warnings, writes, run, prev, verboseMode, detailMode,
                   exitCode,
                   request, response, redirects>>

\* variant of LoopThrow: what was updated so far is written before the
\* run ends
LoopThrowFlushes ==
    /\ pc = "loop"
    /\ idx <= Len(data.services)
    /\ data.services[idx].url = BadUrl
    /\ pc' = "aborted"
    /\ exitCode' = 0
    /\ UNCHANGED <<request, response, redirects>>
    /\ store' = IF updated THEN WithHeader(YamlDump(data)) ELSE store
    /\ UNCHANGED <<data, loaded, idx, updated, now, clock, domains,
                   apexInfo, wwwInfo, dirty, warnings, writes, run, prev,
                   verboseMode, detailMode, probes>>

\* line 208: new URL(service.url) throws, main() rejects and the rejection
\* is printed by main().catch(console.error)
LoopThrow ==
    /\ pc = "loop"
    /\ idx <= Len(data.services)
    /\ data.services[idx].url = BadUrl
    /\ pc' = "aborted"
    /\ exitCode' = 0
    /\ UNCHANGED <<request, response, redirects>>
    /\ UNCHANGED <<store, data, loaded, idx, updated, now, clock, domains,
                   apexInfo, wwwInfo, dirty, warnings, writes, run, prev,
                   verboseMode, detailMode,
                   probes>>

\* the outcomes the probes of a hostname can have; a run that follows
\* another one sees the outcomes of the previous run again
ProbeOutcomes(hostname) ==
    IF hostname = NoHost THEN {NoOutcome} ELSE Outcomes

SameNetwork(ao, wo) ==
    run > 1 => prev.seen[idx] = [apex |-> ao, www |-> wo]

\* lines 243-378: the loop body after the await, for the outcomes ao and wo
\* of the probes of the apex and of the www hostname
ReconcileWith(ao, wo) ==
    /\ LET aInfo == checkDomain(domains.apex, ao)
           wInfo == checkDomain(domains.www, wo)
           service == data.services[idx]
       IN  /\ SameNetwork(ao, wo)
           /\ apexInfo' = aInfo
           /\ wwwInfo' = wInfo
           /\ data' = [data EXCEPT !.services[idx] =
                          ReconcileService(service, domains, aInfo, wInfo,
                                           now)]
           /\ updated' = (updated
                            \/ ServiceUpdated(service, domains, aInfo, wInfo))
           /\ dirty' = IF ServiceUpdated(service, domains, aInfo, wInfo)
                       THEN dirty \cup {idx} ELSE dirty
           /\ warnings' = IF StatusMismatch(service, domains, aInfo, wInfo,
                                            detailMode)
                          THEN warnings \cup {idx} ELSE warnings
           /\ prev' = IF run = 1 /\ prev.planned > 1
                      THEN [prev EXCEPT !.seen =
                               Append(@, [apex |-> ao, www |-> wo])]
                      ELSE prev
    /\ idx' = idx + 1
    /\ pc' = "loop"
    /\ UNCHANGED <<store, loaded, now, clock, domains, writes, run,
                   verboseMode, detailMode, exitCode,
                   request, response, redirects>>

\* lines 223-378: all the probes settle and the loop body runs to its end
Reconcile ==
    /\ pc = "await"
    /\ \E ao \in ProbeOutcomes(domains.apex),
          wo \in ProbeOutcomes(domains.www) : ReconcileWith(ao, wo)
    /\ probes' = NoProbes

\* variant of WriteBack: the registry is written whether updated or not
WriteBackUnconditional ==
    /\ pc = "loop"
    /\ idx > Len(data.services)
    /\ store' = WithHeader(YamlDump(data))
    /\ writes' = writes + 1
    /\ pc' = "done"
    /\ domains' = NoDomains
    /\ apexInfo' = NoInfo
    /\ wwwInfo' = NoInfo
    /\ probes' = NoProbes
    /\ exitCode' = 0
    /\ UNCHANGED <<request, response, redirects>>
    /\ UNCHANGED <<data, loaded, idx, updated, now, clock, dirty, warnings,
                   run, prev, verboseMode, detailMode>>

\* lines 380-399: some service was updated, the registry is written back;
\* the locals of the loop body are gone
WriteBack ==
    /\ pc = "loop"
    /\ idx > Len(data.services)
    /\ updated
    /\ store' = WithHeader(YamlDump(data))
    /\ writes' = writes + 1
    /\ pc' = "done"
    /\ domains' = NoDomains
    /\ apexInfo' = NoInfo
    /\ wwwInfo' = NoInfo
    /\ probes' = NoProbes
    /\ exitCode' = 0
    /\ UNCHANGED <<request, response, redirects>>
    /\ UNCHANGED <<data, loaded, idx, updated, now, clock, dirty, warnings,
                   run, prev, verboseMode, detailMode>>

\* lines 400-402: no service was updated, the store is left alone
NoChanges ==
    /\ pc = "loop"
    /\ idx > Len(data.services)
    /\ ~updated
    /\ pc' = "done"
    /\ domains' = NoDomains
    /\ apexInfo' = NoInfo
    /\ wwwInfo' = NoInfo
    /\ probes' = NoProbes
    /\ exitCode' = 0
    /\ UNCHANGED <<request, response, redirects>>
    /\ UNCHANGED <<store, data, loaded, idx, updated, now, clock, dirty,
                   warnings, writes, run, prev, verboseMode, detailMode>>

Next == Load \/ LoopHead \/ LoopThrow \/ Reconcile \/ WriteBack \/ NoChanges

Spec == Init /\ [][Next]_vars

-----------------------------------------------------------------------------
(* Two or more runs in succession against an unchanged network *)

\* one plain service of any shape, or up to MaxServices core services
TwiceRegistries ==
    {<<s>> : s \in PlainServices(MaxTests)}
        \cup SeqsUpTo(CoreServices, MaxServices)

\* the default invocation, without flags
InitTwice == InitRun(MaxRuns, TwiceRegistries, {FALSE})

\* the process is started again: a new invocation of main()
Rerun ==
    /\ pc \in {"done", "aborted"}
    /\ run < prev.planned
    /\ run' = run + 1
    /\ clock' = clock + 1
    /\ pc' = "start"
    /\ idx' = 0
    /\ updated' = FALSE
    /\ domains' = NoDomains
    /\ apexInfo' = NoInfo
    /\ wwwInfo' = NoInfo
    /\ dirty' = {}
    /\ warnings' = {}
    /\ writes' = 0
    /\ prev' = [prev EXCEPT !.completed = (pc = "done"), !.produced = data]
    /\ exitCode' = Running
    /\ UNCHANGED <<request, response, redirects>>
    /\ UNCHANGED <<store, data, loaded, now, verboseMode, detailMode,
                   probes>>

NextTwice == Next \/ Rerun

SpecTwice == InitTwice /\ [][NextTwice]_vars

-----------------------------------------------------------------------------
(* The same run made twice, with any flags: the second invocation finds    *)
(* the store and the network as the first one found them                   *)

\* the process is started again, with other or the same flags, on a copy
\* of the file the first run loaded
RerunOtherFlags ==
    /\ pc \in {"done", "aborted"}
    /\ run < prev.planned
    /\ run' = run + 1
    /\ clock' = clock + 1
    /\ pc' = "start"
    /\ idx' = 0
    /\ updated' = FALSE
    /\ domains' = NoDomains
    /\ apexInfo' = NoInfo
    /\ wwwInfo' = NoInfo
    /\ dirty' = {}
    /\ warnings' = {}
    /\ writes' = 0
    /\ exitCode' = Running
    /\ UNCHANGED <<request, response, redirects>>
    /\ store' = [header |-> TRUE, doc |-> loaded]
    /\ prev' = [prev EXCEPT !.completed = (pc = "done"), !.produced = data,
                            !.dirty = dirty, !.writes = writes,
                            !.flags = <<verboseMode, detailMode>>]
    /\ verboseMode' \in BOOLEAN
    /\ detailMode' \in BOOLEAN
    /\ UNCHANGED <<data, loaded, now, probes>>

\* a service that every run changes, one that a run may leave alone and
\* one whose url does not parse
FlagServices ==
    {Service("svc", <<"a", "b">>, "full", <<>>),
     Service("svc", <<"s", "a", "b">>, "unknown",
             <<StoredTest("apex_domain", "false")>>),
     Service("svc", BadUrl, "unknown", <<>>)}

FlagRegistries == SeqsUpTo(FlagServices, MaxServices)

InitFlags == InitRun(2, FlagRegistries, BOOLEAN)

NextFlags == Next \/ RerunOtherFlags

SpecFlags == InitFlags /\ [][NextFlags]_vars

-----------------------------------------------------------------------------
(* A run in which the file system may fail *)

\* what a failed fs.writeFile can leave of the file
Truncated == [header |-> FALSE, doc |-> [services |-> <<>>]]

\* lines 199-200, 405: fs.readFile rejects (or yaml.load throws); main()
\* rejects, main().catch(console.error) prints the error and the process
\* ends when nothing is left to run
LoadFail ==
    /\ pc = "start"
    /\ pc' = "failed"
    /\ exitCode' = 0
    /\ UNCHANGED <<request, response, redirects>>
    /\ UNCHANGED <<store, data, loaded, idx, updated, now, clock, domains,
                   apexInfo, wwwInfo, dirty, warnings, writes, run, prev,
                   verboseMode, detailMode, probes>>

\* lines 398, 405: fs.writeFile rejects, with the file untouched or cut
\* short; main() rejects and the error is printed as above
WriteFail ==
    /\ pc = "loop"
    /\ idx > Len(data.services)
    /\ updated
    /\ store' \in {store, Truncated}
    /\ pc' = "failed"
    /\ exitCode' = 0
    /\ UNCHANGED <<request, response, redirects>>
    /\ domains' = NoDomains
    /\ apexInfo' = NoInfo
    /\ wwwInfo' = NoInfo
    /\ probes' = NoProbes
    /\ UNCHANGED <<data, loaded, idx, updated, now, clock, dirty, warnings,
                   writes, run, prev, verboseMode, detailMode>>

NextIO == Next \/ LoadFail \/ WriteFail

SpecIO == Init /\ [][NextIO]_vars

-----------------------------------------------------------------------------
(* A run in which the probes of a service settle one at a time, in any     *)
(* order                                                                   *)

Variants == {"apex", "www"}

\* lines 30-45: dns.resolve6 settles and checkAAAARecord returns
AAAASettles ==
    /\ pc = "await"
    /\ \E v \in Variants, ev \in DnsEvents :
          /\ probes[v].issued
          /\ probes[v].aaaa = <<>>
          /\ probes' = [probes EXCEPT ![v].aaaa =
                                         SettledProbe(ev, checkAAAARecord(ev))]
    /\ UNCHANGED <<store, data, loaded, pc, idx, updated, now, clock,
                   domains, apexInfo, wwwInfo, dirty, warnings, writes, run,
                   prev, verboseMode, detailMode, exitCode,
                   request, response, redirects>>

\* lines 48-55: dns.resolve4 settles and getARecord returns
ASettles ==
    /\ pc = "await"
    /\ \E v \in Variants, ev \in DnsEvents :
          /\ probes[v].issued
          /\ probes[v].a = <<>>
          /\ probes' = [probes EXCEPT ![v].a =
                                         SettledProbe(ev, getARecord(ev))]
    /\ UNCHANGED <<store, data, loaded, pc, idx, updated, now, clock,
                   domains, apexInfo, wwwInfo, dirty, warnings, writes, run,
                   prev, verboseMode, detailMode, exitCode,
                   request, response, redirects>>

\* lines 61-112: the first event of the request resolves the promise of
\* testHTTPConnectivity
HttpSettles ==
    /\ pc = "await"
    /\ \E v \in Variants, ev \in HttpEvents :
          /\ probes[v].issued
          /\ probes[v].http = <<>>
          /\ probes' = [probes EXCEPT ![v].http =
                           Resolve(@, ev, testHTTPConnectivity(ev))]
    /\ UNCHANGED <<store, data, loaded, pc, idx, updated, now, clock,
                   domains, apexInfo, wwwInfo, dirty, warnings, writes, run,
                   prev, verboseMode, detailMode, exitCode,
                   request, response, redirects>>

\* lines 77-102: a further event of a request whose promise has settled
\* (the socket error of req.destroy(), a late response, ...) runs its
\* handler, which calls resolve again
HttpLateEvent ==
    /\ pc = "await"
    /\ \E v \in Variants, ev \in HttpEvents :
          /\ probes[v].issued
          /\ probes[v].http # <<>>
          /\ Len(probes[v].http) <= MaxLate
          /\ probes' = [probes EXCEPT ![v].http =
                           Resolve(@, ev, testHTTPConnectivity(ev))]
    /\ UNCHANGED <<store, data, loaded, pc, idx, updated, now, clock,
                   domains, apexInfo, wwwInfo, dirty, warnings, writes, run,
                   prev, verboseMode, detailMode, exitCode,
                   request, response, redirects>>

\* the outcome main() reads from the probes of a hostname, false for a
\* probe that has not settled
OutcomeSoFar(hostname, p) ==
    IF Settled(p) THEN ProbedOutcome(hostname, p) ELSE NoOutcome

\* variant of Resume: the loop body goes on as soon as the probes of the
\* apex hostname have settled
ResumeAfterApex ==
    /\ pc = "await"
    /\ Settled(probes.apex)
    /\ ReconcileWith(OutcomeSoFar(domains.apex, probes.apex),
                     OutcomeSoFar(domains.www, probes.www))
    /\ UNCHANGED probes

\* variant of Resume: when an HTTP request failed, the probes of the
\* service are started once more
ResumeWithRetry ==
    /\ pc = "await"
    /\ Settled(probes.apex)
    /\ Settled(probes.www)
    /\ IF \E v \in {"apex", "www"} :
             probes[v].issued /\ ~probes[v].http[1].value.success
       THEN /\ probes' = IssueProbes(domains)
            /\ UNCHANGED <<store, data, loaded, pc, idx, updated, now, clock,
                           domains, apexInfo, wwwInfo, dirty, warnings,
                           writes, run, prev, verboseMode, detailMode,
                           exitCode,
                   request, response, redirects>>
       ELSE /\ ReconcileWith(ProbedOutcome(domains.apex, probes.apex),
                             ProbedOutcome(domains.www, probes.www))
            /\ UNCHANGED probes

\* lines 181-185, 223-226: both Promise.all have fulfilled, the await of
\* main() returns and the loop body runs to its end
Resume ==
    /\ pc = "await"
    /\ Settled(probes.apex)
    /\ Settled(probes.www)
    /\ ReconcileWith(ProbedOutcome(domains.apex, probes.apex),
                     ProbedOutcome(domains.www, probes.www))
    /\ UNCHANGED probes

\* services with and without a www hostname and nothing stored yet, and
\* one with a failed apex test stored
AsyncServices ==
    {Service("svc", url, "unknown", <<>>) :
        url \in {<<"a", "b">>, <<"s", "a", "b">>}}
        \cup {Service("svc", <<"s", "a", "b">>, "unknown",
                      <<StoredTest("apex_domain", "false")>>)}

AsyncRegistries == SeqsUpTo(AsyncServices, MaxServices)

\* one service only
RaceRegistries == {<<s>> : s \in AsyncServices}

InitAsync == InitRun(1, AsyncRegistries, {FALSE})

NextAsync ==
    \/ Load
    \/ LoopHead
    \/ AAAASettles
    \/ ASettles
    \/ HttpSettles
    \/ Resume
    \/ WriteBack
    \/ NoChanges

SpecAsync == InitAsync /\ [][NextAsync]_vars

-----------------------------------------------------------------------------
(* getDomainVariants on its own, applied to the url of one service *)

\* labels of hostnames: www, a label that only begins with www, another
Labels == {"www", "www2", "a"}

\* the hostnames of up to n labels
HostnamesUpTo(n) == SeqsUpTo(Labels, n)

DeriveRegistries ==
    {<<Service("svc", url, "unknown", <<>>)>> :
        url \in HostnamesUpTo(MaxLabels) \cup {BadUrl}}

InitDerive ==
    /\ store \in {[header |-> TRUE, doc |-> [services |-> reg]] :
                     reg \in DeriveRegistries}
    /\ data = YamlLoad(store)
    /\ loaded = YamlLoad(store)
    /\ pc = "derive"
    /\ idx = 1
    /\ updated = FALSE
    /\ now = 1
    /\ clock = 1
    /\ domains = NoDomains
    /\ apexInfo = NoInfo
    /\ wwwInfo = NoInfo
    /\ dirty = {}
    /\ warnings = {}
    /\ writes = 0
    /\ run = 1
    /\ prev = [planned |-> 1, seen |-> <<>>, completed |-> FALSE,
               produced |-> [services |-> <<>>], dirty |-> {}, writes |-> 0,
               flags |-> <<FALSE, FALSE>>]
    /\ verboseMode = FALSE
    /\ detailMode = FALSE
    /\ probes = NoProbes
    /\ exitCode = Running
    /\ request = NoRequest
    /\ response = NoResponse
    /\ redirects = 0

\* lines 134-168: getDomainVariants(service.url) returns
Derive ==
    /\ pc = "derive"
    /\ domains' = getDomainVariants(data.services[idx].url)
    /\ pc' = "derived"
    /\ UNCHANGED <<store, data, loaded, idx, updated, now, clock, apexInfo,
                   wwwInfo, dirty, warnings, writes, run, prev, verboseMode,
                   detailMode, probes, exitCode,
                   request, response, redirects>>

NextDerive == Derive

SpecDerive == InitDerive /\ [][NextDerive]_vars

-----------------------------------------------------------------------------
(* The edge worker and a client that follows its redirects.                *)

InitWorker ==
    /\ store = [header |-> TRUE, doc |-> [services |-> <<>>]]
    /\ data = [services |-> <<>>]
    /\ loaded = [services |-> <<>>]
    /\ pc = "start"
    /\ idx = 0
    /\ updated = FALSE
    /\ now = 0
    /\ clock = 1
    /\ domains = NoDomains
    /\ apexInfo = NoInfo
    /\ wwwInfo = NoInfo
    /\ dirty = {}
    /\ warnings = {}
    /\ writes = 0
    /\ run = 1
    /\ prev = [planned |-> 1, seen |-> <<>>, completed |-> FALSE,
               produced |-> [services |-> <<>>], dirty |-> {}, writes |-> 0,
               flags |-> <<FALSE, FALSE>>]
    /\ verboseMode = FALSE
    /\ detailMode = FALSE
    /\ probes = NoProbes
    /\ exitCode = Running
    /\ request \in Requests
    /\ response = NoResponse
    /\ redirects = 0

\* the worker answers the request in hand
Fetch ==
    /\ request # NoRequest
    /\ response = NoResponse
    /\ \E thrown \in BOOLEAN : response' = fetch(request, thrown)
    /\ UNCHANGED <<store, data, loaded, pc, idx, updated, now, clock,
                   domains, apexInfo, wwwInfo, dirty, warnings, writes, run,
                   prev, verboseMode, detailMode, probes, exitCode, request,
                   redirects>>

\* the client requests the Location of a 301 response
FollowRedirect ==
    /\ response.status = 301
    /\ redirects < MaxRedirects
    /\ request' = response.location
    /\ response' = NoResponse
    /\ redirects' = redirects + 1
    /\ UNCHANGED <<store, data, loaded, pc, idx, updated, now, clock,
                   domains, apexInfo, wwwInfo, dirty, warnings, writes, run,
                   prev, verboseMode, detailMode, probes, exitCode>>

NextWorker == Fetch \/ FollowRedirect

SpecWorker == InitWorker /\ [][NextWorker]_vars

\* the worker returns a response to every request and the client follows
\* every redirect
FairWorker == InitWorker /\ [][NextWorker]_vars /\ WF_vars(NextWorker)

\* a run in which every lookup and every request that is under way
\* eventually settles and the event loop runs every continuation that is
\* ready
\* checked over one service of any kind, or up to MaxServices services
\* without a www hostname
FairRegistries ==
    RaceRegistries
        \cup SeqsUpTo({s \in AsyncServices : s.url = <<"s", "a", "b">>},
                      MaxServices)

InitFair == InitRun(1, FairRegistries, {FALSE})

FairAsync == InitFair /\ [][NextAsync]_vars /\ WF_vars(NextAsync)

-----------------------------------------------------------------------------
(* A run over one service in which HTTP requests emit further events after *)
(* the first one                                                           *)

InitRace == InitRun(1, RaceRegistries, {FALSE})

NextRace == NextAsync \/ HttpLateEvent

SpecRace == InitRace /\ [][NextRace]_vars

\* type invariant of the run state
TypeOK ==
    /\ pc \in {"start", "loop", "await", "done", "aborted", "failed",
             "derive", "derived"}
    /\ exitCode \in {Running, 0}
    /\ request \in Requests \cup {NoRequest}
    /\ response.status \in {0, 200, 301, 404}
    /\ redirects \in 0..MaxRedirects
    /\ idx \in 0..(MaxServices + 1)
    /\ updated \in BOOLEAN
    /\ writes \in 0..1
    /\ run \in 1..MaxRuns

-----------------------------------------------------------------------------
(* Vocabulary of the properties *)

\* the services whose loop body has run to its end in this run
Reconciled == 1..(idx - 1)

\* the loop body of service Last has just ended: domains, apexInfo and
\* wwwInfo are still those of that service
JustReconciled == pc \in {"loop", "aborted"} /\ idx > 1

Last == idx - 1

TestsOf(reg, i) == reg.services[i].ipv6.tests

StatusOf(reg, i) == reg.services[i].ipv6.status

HasTest(tests, id) == \E k \in 1..Len(tests) : tests[k].id = id

CountTests(tests, id) == Cardinality({k \in 1..Len(tests) : tests[k].id = id})

ResultOf(tests, id) == tests[FindTest(tests, id)].result

OneSided(info) ==
    \/ info.hasAAAA /\ ~info.httpWorks
    \/ info.httpWorks /\ ~info.hasAAAA

\* the status the inference rule assigns to reconciled tests
ExpectedStatus(tests, wwwApplies) ==
    LET apexOk == Truthy(ResultOf(tests, "apex_domain"))
        wwwOk == wwwApplies /\ Truthy(ResultOf(tests, "www_domain"))
    IN  IF apexOk /\ (~wwwApplies \/ wwwOk) THEN "full"
        ELSE IF wwwApplies /\ (apexOk # wwwOk) THEN "partial"
        ELSE "none"

-----------------------------------------------------------------------------
(* C1 *)

\* C1: a status that is none, partial or full when the run loads the
\* registry is the same in the working registry and in the store at every
\* point of the run, for all probe outcomes, stored tests and flags.
C1_StatusMonotonic ==
    \A i \in 1..Len(loaded.services) :
        StatusOf(loaded, i) # "unknown"
            => /\ StatusOf(data, i) = StatusOf(loaded, i)
               /\ StatusOf(store.doc, i) = StatusOf(loaded, i)

\* a finished run that printed a mismatch for a dirty service stored as
\* full whose reconciled apex test failed
C1_Witness ==
    /\ pc = "done"
    /\ \E i \in dirty \cap warnings :
          /\ StatusOf(loaded, i) = "full"
          /\ ResultOf(TestsOf(data, i), "apex_domain") = "false"

-----------------------------------------------------------------------------
(* C2 *)

\* C2: a service whose status is unknown when the run loads it has, once
\* its loop body has run, the status the inference rule gives to its
\* reconciled tests (full, partial or none), and never unknown.
C2_Claim ==
    (JustReconciled /\ StatusOf(loaded, Last) = "unknown")
        => StatusOf(data, Last)
             = ExpectedStatus(TestsOf(data, Last), domains.www # NoHost)

-----------------------------------------------------------------------------
(* C3 *)

\* C3 as stated: for every service, AAAA without HTTP or HTTP without AAAA
\* on the apex hostname leaves apex_domain.result false, and likewise for
\* www_domain.result with the probes of the www hostname.
C3_Claim ==
    JustReconciled =>
        /\ OneSided(apexInfo)
              => ResultOf(TestsOf(data, Last), "apex_domain") = "false"
        /\ (domains.www # NoHost /\ OneSided(wwwInfo))
              => ResultOf(TestsOf(data, Last), "www_domain") = "false"

\* C3 amended: the same for every service without an override (id other
\* than azure); for azure HTTP without AAAA still gives false and the www
\* part holds unchanged.
C3_BothRequired ==
    JustReconciled =>
        /\ (OneSided(apexInfo)
              /\ (data.services[Last].id # "azure" \/ ~apexInfo.hasAAAA))
              => ResultOf(TestsOf(data, Last), "apex_domain") = "false"
        /\ (domains.www # NoHost /\ OneSided(wwwInfo))
              => ResultOf(TestsOf(data, Last), "www_domain") = "false"

\* AAAA present, HTTP failed, on a service without override whose stored
\* apex test said true, and a www hostname with HTTP but no AAAA
C3_Witness ==
    /\ JustReconciled
    /\ data.services[Last].id # "azure"
    /\ apexInfo.hasAAAA /\ ~apexInfo.httpWorks
    /\ HasTest(TestsOf(loaded, Last), "apex_domain")
    /\ ResultOf(TestsOf(loaded, Last), "apex_domain") = "true"
    /\ domains.www # NoHost
    /\ wwwInfo.httpWorks /\ ~wwwInfo.hasAAAA
    /\ ResultOf(TestsOf(data, Last), "apex_domain") = "false"

-----------------------------------------------------------------------------
(* C4 *)

\* C4: in a run that follows a completed run, with the same probe
\* outcomes, no service is marked dirty, nothing is written, and tests and
\* status of every service are those the previous run produced.
C4_Idempotent ==
    (run > 1 /\ prev.completed /\ pc # "start") =>
        /\ dirty = {}
        /\ ~updated
        /\ writes = 0
        /\ \A i \in 1..Len(data.services) :
              /\ TestsOf(data, i) = TestsOf(prev.produced, i)
              /\ StatusOf(data, i) = StatusOf(prev.produced, i)

\* a second run finished after a first run that wrote a changed registry
C4_Witness ==
    /\ run = 2
    /\ prev.completed
    /\ pc = "done"
    /\ \E i \in 1..Len(data.services) :
          /\ \E k \in 1..Len(TestsOf(data, i)) :
                TestsOf(data, i)[k].result = "true"
          /\ data.services[i].ipv6.last_checked = now
          /\ prev.produced.services[i].ipv6.last_checked < now
          /\ store.doc.services[i].ipv6.last_checked < now

-----------------------------------------------------------------------------
(* C5 *)

\* the stored legacy result if the fresh outcome agrees with it, the fresh
\* outcome otherwise
PreservedUnlessContradicted(stored, fresh) ==
    IF stored = B2R(fresh) THEN stored ELSE B2R(fresh)

\* a legacy test at position m of the loaded tests is, after the loop
\* body, the only test with the new id, found at position at, with the
\* refreshed name and description, and no test keeps the legacy id
MigratedTo(old, new, legacyId, newId, m, at, fresh) ==
    /\ CountTests(new, newId) = 1
    /\ ~HasTest(new, legacyId)
    /\ FindTest(new, newId) = at
    /\ new[at].result = PreservedUnlessContradicted(old[m].result, fresh)
    /\ new[at].name = StoredName(newId)
    /\ new[at].description = StoredDescription(newId)

ApexToMigrate(old) ==
    HasTest(old, "aaaa_record") /\ ~HasTest(old, "apex_domain")

WwwToMigrate(old) ==
    /\ HasTest(old, "www_variant")
    /\ ~HasTest(old, "www_domain")
    /\ domains.www # NoHost

\* a www_domain test stored in front of position m that the loop body
\* removes because no www variant applies
WwwRemovedBefore(old, m) ==
    /\ domains.www = NoHost
    /\ HasTest(old, "www_domain")
    /\ FindTest(old, "www_domain") < m

FreshApex == ApexWorks(data.services[Last], apexInfo)

FreshWww == WwwWorks(wwwInfo)

\* C5 as stated: a stored aaaa_record test (with no apex_domain test) is,
\* after one run, the only apex_domain test, at the same position, with
\* the stored result unless the fresh outcome contradicts it; the same
\* for www_variant -> www_domain when a www variant applies.
C5_Claim ==
    JustReconciled =>
        LET old == TestsOf(loaded, Last)
            new == TestsOf(data, Last)
        IN  /\ ApexToMigrate(old)
                 => MigratedTo(old, new, "aaaa_record", "apex_domain",
                               FindTest(old, "aaaa_record"),
                               FindTest(old, "aaaa_record"), FreshApex)
            /\ WwwToMigrate(old)
                 => MigratedTo(old, new, "www_variant", "www_domain",
                               FindTest(old, "www_variant"),
                               FindTest(old, "www_variant"), FreshWww)

\* C5 amended: the migrated apex test keeps its position among the tests
\* that are kept, that is the same index, or one less when a www_domain
\* test stored in front of it is removed because no www variant applies;
\* the rest as stated.
C5_Migration ==
    JustReconciled =>
        LET old == TestsOf(loaded, Last)
            new == TestsOf(data, Last)
            m == FindTest(old, "aaaa_record")
        IN  /\ ApexToMigrate(old)
                 => MigratedTo(old, new, "aaaa_record", "apex_domain", m,
                               IF WwwRemovedBefore(old, m) THEN m - 1 ELSE m,
                               FreshApex)
            /\ WwwToMigrate(old)
                 => MigratedTo(old, new, "www_variant", "www_domain",
                               FindTest(old, "www_variant"),
                               FindTest(old, "www_variant"), FreshWww)

\* both legacy tests migrated in place, the apex one in second position
\* with a stored result the fresh outcome contradicts
C5_Witness ==
    /\ JustReconciled
    /\ ApexToMigrate(TestsOf(loaded, Last))
    /\ WwwToMigrate(TestsOf(loaded, Last))
    /\ FindTest(TestsOf(loaded, Last), "aaaa_record") = 2
    /\ ResultOf(TestsOf(loaded, Last), "aaaa_record") = "true"
    /\ ~FreshApex
    /\ TestsOf(data, Last)[2].id = "apex_domain"
    /\ TestsOf(data, Last)[1].id = "www_domain"

-----------------------------------------------------------------------------
(* C6 *)

NoLegacyIds(reg) ==
    \A i \in 1..Len(reg.services) :
        \A id \in LegacyIds : ~HasTest(TestsOf(reg, i), id)

\* C6: whenever the run has written the store, no test of the written
\* registry has the id aaaa_record or www_variant.
C6_Claim == writes > 0 => NoLegacyIds(store.doc)

-----------------------------------------------------------------------------
(* C7 *)

\* C7 as stated: a reconciled service whose hostname has three or more
\* labels has no www_domain test.
C7_Claim ==
    \A i \in Reconciled :
        Len(data.services[i].url) >= 3
            => ~HasTest(TestsOf(data, i), "www_domain")

\* C7 amended: a reconciled service whose hostname has three or more
\* labels and does not start with "www." has no www_domain test.
C7_SubdomainSuppression ==
    \A i \in Reconciled :
        (Len(data.services[i].url) >= 3
            /\ data.services[i].url[1] # "www")
            => ~HasTest(TestsOf(data, i), "www_domain")

\* a three-label service that was stored with a www_domain test has been
\* reconciled with probes that all succeeded
C7_Witness ==
    /\ JustReconciled
    /\ \E i \in Reconciled :
          /\ data.services[i].url = <<"s", "a", "b">>
          /\ HasTest(TestsOf(loaded, i), "www_domain")
          /\ i = Last
          /\ apexInfo.hasAAAA /\ apexInfo.httpWorks
          /\ i \in dirty

-----------------------------------------------------------------------------
(* C8 *)

\* C8 as stated: a reconciled service has a www_domain test iff its
\* hostname is a two-label apex a.b or that apex prefixed with www.
C8_Claim ==
    \A i \in Reconciled :
        LET h == data.services[i].url
        IN  HasTest(TestsOf(data, i), "www_domain")
                <=> (Len(h) = 2 \/ (Len(h) = 3 /\ h[1] = "www"))

\* C8 amended: a reconciled service has a www_domain test iff its
\* hostname starts with "www." or has at most two labels.
C8_WwwApplicability ==
    \A i \in Reconciled :
        LET h == data.services[i].url
        IN  HasTest(TestsOf(data, i), "www_domain")
                <=> ((Len(h) >= 2 /\ h[1] = "www") \/ Len(h) <= 2)

\* a www. name with four labels got a www_domain test it did not have
C8_Witness ==
    /\ pc = "done"
    /\ \E i \in Reconciled :
          /\ data.services[i].url = <<"www", "s", "a", "b">>
          /\ ~HasTest(TestsOf(loaded, i), "www_domain")
          /\ ~HasTest(TestsOf(loaded, i), "www_variant")
          /\ HasTest(TestsOf(data, i), "www_domain")

-----------------------------------------------------------------------------
(* C9 *)

\* the file with the header comment that holds the registry reg
FileOf(reg) == [header |-> TRUE, doc |-> reg]

\* C9: a run that reaches the persistence step writes the store at most
\* once, and writes iff a service was marked dirty; a service is dirty iff
\* its tests changed; without a write the store is exactly as loaded, and
\* a write stores the working registry.
C9_ChangeSuppressing ==
    /\ writes <= 1
    /\ \A i \in Reconciled :
          i \in dirty <=> TestsOf(data, i) # TestsOf(loaded, i)
    /\ updated <=> dirty # {}
    /\ pc = "done" => (writes = 1 <=> dirty # {})
    /\ writes = 1 => (pc = "done" /\ store = FileOf(data))
    /\ (writes = 0 /\ pc # "start") => store = FileOf(loaded)

\* a finished run over two services in which only last_checked changed
C9_Witness ==
    /\ pc = "done"
    /\ Len(data.services) = 2
    /\ dirty = {}
    /\ writes = 0
    /\ \A i \in 1..2 :
          data.services[i].ipv6.last_checked
              # loaded.services[i].ipv6.last_checked
    /\ store = FileOf(loaded)

-----------------------------------------------------------------------------
(* C10 *)

\* C10: when the run completes, every service of the working registry has
\* last_checked equal to the one timestamp the run took at its start.
C10_LastChecked ==
    pc = "done" =>
        /\ now = clock
        /\ \A i \in 1..Len(data.services) :
              data.services[i].ipv6.last_checked = now

\* a finished run over two services, one dirty and one not
C10_Witness ==
    /\ pc = "done"
    /\ Len(data.services) = 2
    /\ 1 \in dirty
    /\ 2 \notin dirty
    /\ data.services[2].ipv6.tests = loaded.services[2].ipv6.tests

-----------------------------------------------------------------------------
(* C11 *)

\* C11 as stated: a service whose url cannot be parsed does not abort the
\* run: its probes count as failed (apex_domain.result false), every
\* other service is still reconciled and the run reaches its end, where
\* the registry is written back or found unchanged.
C11_Claim ==
    /\ pc # "aborted"
    /\ pc = "done" =>
          \A i \in 1..Len(data.services) :
              /\ i \in Reconciled
              /\ data.services[i].url = BadUrl
                    => ResultOf(TestsOf(data, i), "apex_domain") = "false"

-----------------------------------------------------------------------------
(* C12 *)

\* C12 as stated: once the process has ended, its exit status is non-zero
\* if and only if the store could not be read at the start or could not
\* be written at the end; with probe failures only it is zero.
C12_Claim ==
    exitCode # Running => (exitCode # 0 <=> pc = "failed")

-----------------------------------------------------------------------------
(* C13 *)

\* C13: in whatever order the probes settle, the loop body of a service
\* goes on past the await (and changes the service) only when the AAAA,
\* the A and the HTTP probe of its apex hostname and of its www hostname
\* have all settled, and the store is written only when the loop body of
\* every service has run.
C13_Ordering ==
    [][/\ (pc = "await" /\ (pc' # "await" \/ data' # data))
            => (Settled(probes.apex) /\ Settled(probes.www))
       /\ store' # store
            => (pc = "loop" /\ Reconciled = 1..Len(data.services))]_vars

\* the probes of the second service settle out of order, the www ones
\* before the AAAA lookup of the apex, after the first service was changed
C13_Witness ==
    /\ pc = "await"
    /\ idx = 2
    /\ 1 \in dirty
    /\ probes.www.issued
    /\ Settled(probes.www)
    /\ probes.apex.aaaa = <<>>
    /\ data.services[2] = loaded.services[2]

-----------------------------------------------------------------------------
(* C14 *)

\* the shape of y.example.com: three labels, the first one not www
ScenarioHost == <<"s", "a", "b">>

\* the service of the scenario has just been reconciled: url
\* https://y.example.com, status unknown when loaded, no AAAA record on
\* the apex hostname
ScenarioReconciled ==
    /\ JustReconciled
    /\ data.services[Last].url = ScenarioHost
    /\ StatusOf(loaded, Last) = "unknown"
    /\ ~apexInfo.hasAAAA

-----------------------------------------------------------------------------
(* C15 *)

\* C15: a service whose tests have pairwise distinct ids when the registry
\* is loaded has, once its loop body has run, tests with pairwise distinct
\* ids of which exactly one is apex_domain, for all probe outcomes and all
\* stored current, legacy and other ids; so has the store after the write.
C15_UniqueIds ==
    /\ \A i \in Reconciled :
          UniqueIds(TestsOf(loaded, i))
              => /\ UniqueIds(TestsOf(data, i))
                 /\ CountTests(TestsOf(data, i), "apex_domain") = 1
    /\ (pc = "done" /\ writes = 1) =>
          \A i \in 1..Len(store.doc.services) :
              UniqueIds(TestsOf(loaded, i))
                  => /\ UniqueIds(TestsOf(store.doc, i))
                     /\ CountTests(TestsOf(store.doc, i), "apex_domain") = 1

\* a service stored with apex_domain next to the legacy aaaa_record, to
\* which the run added www_domain, has been written back
C15_Witness ==
    /\ pc = "done"
    /\ writes = 1
    /\ \E i \in Reconciled :
          /\ HasTest(TestsOf(loaded, i), "apex_domain")
          /\ HasTest(TestsOf(loaded, i), "aaaa_record")
          /\ Len(TestsOf(store.doc, i)) = 3
          /\ HasTest(TestsOf(store.doc, i), "www_domain")

-----------------------------------------------------------------------------
(* C16 *)

\* a service without the three fields a run may change
Framed(service) ==
    [service EXCEPT !.ipv6.tests = <<>>,
                    !.ipv6.status = "unknown",
                    !.ipv6.last_checked = 0]

\* registry reg has the services of the loaded registry, in the same
\* order, each with the same id, name, url, category, description and
\* ipv6.notes and with no field other than ipv6.tests, ipv6.status and
\* ipv6.last_checked changed
SameFrame(reg) ==
    /\ Len(reg.services) = Len(loaded.services)
    /\ \A i \in 1..Len(loaded.services) :
          /\ Framed(reg.services[i]) = Framed(loaded.services[i])
          /\ reg.services[i].id = loaded.services[i].id
          /\ reg.services[i].name = loaded.services[i].name
          /\ reg.services[i].url = loaded.services[i].url
          /\ reg.services[i].category = loaded.services[i].category
          /\ reg.services[i].description = loaded.services[i].description
          /\ reg.services[i].ipv6.notes = loaded.services[i].ipv6.notes

\* C16: at every point of a run after the load, the working registry and
\* the store hold the services that were loaded, none added, deleted or
\* moved, and differ from them at most in ipv6.tests, ipv6.status and
\* ipv6.last_checked.
C16_Frame ==
    pc # "start" => (SameFrame(data) /\ SameFrame(store.doc))

\* a written run over two different services, both changed
C16_Witness ==
    /\ pc = "done"
    /\ writes = 1
    /\ Len(loaded.services) = 2
    /\ loaded.services[1] # loaded.services[2]
    /\ dirty = {1, 2}
    /\ store.doc.services[1] # loaded.services[1]
    /\ store.doc.services[2] # loaded.services[2]

-----------------------------------------------------------------------------
(* C17 *)

\* the settled probes of hostname variant v whose lookup or request failed
FailedAAAA(v) == probes[v].aaaa # <<>> /\ ~probes[v].aaaa[1].event.ok

FailedA(v) == probes[v].a # <<>> /\ ~probes[v].a[1].event.ok

FailedHttp(v) ==
    probes[v].http # <<>> /\ probes[v].http[1].event.type # "response"

InfoOf(v) == IF v = "apex" THEN apexInfo ELSE wwwInfo

\* C17: whatever DNS lookups reject and whatever HTTP requests end in an
\* error or a timeout, the run is not aborted: a failed AAAA or A lookup
\* returns hasRecord false with an empty address list, a failed HTTP
\* request returns success false; the loop body then sees hasAAAA false
\* (with no addresses, and hasA false) resp. httpWorks false for that
\* hostname, and a run that ends has reconciled every service.
C17_ProbeFailuresAreData ==
    /\ pc \notin {"aborted", "failed"}
    /\ \A v \in Variants :
          /\ FailedAAAA(v) =>
                /\ ~probes[v].aaaa[1].value.hasRecord
                /\ probes[v].aaaa[1].value.addresses = <<>>
          /\ FailedA(v) =>
                /\ ~probes[v].a[1].value.hasRecord
                /\ probes[v].a[1].value.addresses = <<>>
          /\ FailedHttp(v) => ~probes[v].http[1].value.success
          /\ (JustReconciled /\ probes[v].issued) =>
                /\ FailedAAAA(v) =>
                      /\ ~InfoOf(v).hasAAAA
                      /\ DomainReport(domains[v], probes[v]).addresses = <<>>
                /\ FailedA(v) => ~DomainReport(domains[v], probes[v]).hasA
                /\ FailedHttp(v) => ~InfoOf(v).httpWorks
    /\ JustReconciled =>
          /\ HasTest(TestsOf(data, Last), "apex_domain")
          /\ ResultOf(TestsOf(data, Last), "apex_domain") # "null"
    /\ pc = "done" => Reconciled = 1..Len(data.services)

\* every probe of the second of two services failed, NXDOMAIN-like for
\* the four lookups and a timeout and a connection error for the requests,
\* and the service was reconciled to a failed apex and www test
C17_Witness ==
    /\ JustReconciled
    /\ Last = 2
    /\ \A v \in Variants :
          probes[v].issued /\ FailedAAAA(v) /\ FailedA(v) /\ FailedHttp(v)
    /\ probes.apex.http[1].event.type = "timeout"
    /\ probes.www.http[1].event.type = "error"
    /\ ResultOf(TestsOf(data, 2), "apex_domain") = "false"
    /\ ResultOf(TestsOf(data, 2), "www_domain") = "false"

-----------------------------------------------------------------------------
(* C18 *)

\* C18 as stated: the apex test of the service with id azure ends true
\* for every combination of hasAAAA and httpWorks, and the apex test of
\* every other service ends as hasAAAA AND httpWorks.
C18_Claim ==
    JustReconciled =>
        ResultOf(TestsOf(data, Last), "apex_domain")
            = IF data.services[Last].id = "azure"
              THEN "true"
              ELSE B2R(apexInfo.hasAAAA /\ apexInfo.httpWorks)

\* C18 amended: the apex test of the service with id azure ends true
\* exactly when the apex hostname has AAAA records, whatever httpWorks
\* is, and false without AAAA records; the apex test of every other
\* service ends as hasAAAA AND httpWorks.
C18_Override ==
    JustReconciled =>
        ResultOf(TestsOf(data, Last), "apex_domain")
            = IF data.services[Last].id = "azure"
              THEN B2R(apexInfo.hasAAAA)
              ELSE B2R(apexInfo.hasAAAA /\ apexInfo.httpWorks)

\* azure without AAAA records but with an HTTP answer: the stored true
\* result of the apex test became false
C18_Witness ==
    /\ JustReconciled
    /\ data.services[Last].id = "azure"
    /\ ~apexInfo.hasAAAA
    /\ apexInfo.httpWorks
    /\ HasTest(TestsOf(loaded, Last), "apex_domain")
    /\ ResultOf(TestsOf(loaded, Last), "apex_domain") = "true"
    /\ ResultOf(TestsOf(data, Last), "apex_domain") = "false"

-----------------------------------------------------------------------------
(* C19 *)

\* C19 as stated: in --detail mode a status mismatch is printed for a
\* service exactly when, at the end of its loop body, its stored status
\* differs from the status the inference rule gives to its reconciled
\* tests, whether or not the run changed any of its tests.
C19_Claim ==
    (detailMode /\ JustReconciled) =>
        (Last \in warnings
            <=> StatusOf(data, Last)
                  # ExpectedStatus(TestsOf(data, Last), domains.www # NoHost))

-----------------------------------------------------------------------------
(* C20 *)

\* the hostname of the url getDomainVariants was applied to
DerivedFrom == data.services[idx].url

\* C20: for a url that parses, getDomainVariants returns the hostname
\* without its first label as apex, the hostname as www and the form www
\* when the hostname starts with "www."; else the hostname as apex, no
\* www and the form subdomain when it has more than two labels; else the
\* hostname as apex, "www." + hostname as www and the form apex.  For a
\* url that does not parse it returns three nulls.  The cases are tried
\* in this order.
C20_DomainVariants ==
    pc = "derived" =>
        IF DerivedFrom = BadUrl
        THEN /\ domains.apex = NoHost
             /\ domains.www = NoHost
             /\ domains.providedForm = "null"
        ELSE IF Len(DerivedFrom) >= 2 /\ Head(DerivedFrom) = "www"
        THEN /\ domains.apex = SubSeq(DerivedFrom, 2, Len(DerivedFrom))
             /\ domains.www = DerivedFrom
             /\ domains.providedForm = "www"
        ELSE IF Len(DerivedFrom) > 2
        THEN /\ domains.apex = DerivedFrom
             /\ domains.www = NoHost
             /\ domains.providedForm = "subdomain"
        ELSE /\ domains.apex = DerivedFrom
             /\ domains.www = <<"www">> \o DerivedFrom
             /\ domains.providedForm = "apex"

\* a hostname of four labels that starts with www.: the form is www, not
\* subdomain, and the apex keeps three labels
C20_Witness ==
    /\ pc = "derived"
    /\ Len(DerivedFrom) = 4
    /\ Head(DerivedFrom) = "www"
    /\ domains.providedForm = "www"
    /\ Len(domains.apex) = 3
    /\ domains.www = DerivedFrom

-----------------------------------------------------------------------------
(* C21 *)

\* the value testHTTPConnectivity must return when ev is the first event
FirstEventValue(ev) ==
    IF ev.type = "response"
    THEN [success |-> TRUE, statusCode |-> ev.statusCode, error |-> "null"]
    ELSE IF ev.type = "timeout"
    THEN [success |-> FALSE, statusCode |-> 0, error |-> "TIMEOUT"]
    ELSE [success |-> FALSE, statusCode |-> 0, error |-> ev.code]

\* C21: the value of an HTTP probe is the one of the first of the events
\* response, error and timeout of its request, whatever events follow:
\* success true with the status code for a response, whatever the code,
\* success false with TIMEOUT for a timeout, success false with the socket
\* error code for an error; the loop body sees httpWorks accordingly.
C21_FirstEventWins ==
    \A v \in Variants :
        (probes[v].issued /\ probes[v].http # <<>>) =>
            /\ probes[v].http[1].value
                 = FirstEventValue(probes[v].http[1].event)
            /\ JustReconciled =>
                  InfoOf(v).httpWorks
                      = (probes[v].http[1].event.type = "response")

\* the request to the apex hostname timed out and then emitted the socket
\* error of its teardown, the one to the www hostname got a 404 response
\* and then an error; the service was reconciled with these values
C21_Witness ==
    /\ JustReconciled
    /\ Len(probes.apex.http) = 2
    /\ probes.apex.http[1].event.type = "timeout"
    /\ probes.apex.http[2].event.type = "error"
    /\ probes.apex.http[1].value.error = "TIMEOUT"
    /\ Len(probes.www.http) = 2
    /\ probes.www.http[1].event.type = "response"
    /\ probes.www.http[1].event.statusCode = 404
    /\ probes.www.http[2].event.type = "error"
    /\ wwwInfo.httpWorks
    /\ ~apexInfo.httpWorks

-----------------------------------------------------------------------------
(* C22 *)

\* C22: when every DNS lookup eventually returns and every HTTP request
\* eventually has a response, an error or its timeout, a run over a
\* registry of parseable urls eventually has run the loop body of every
\* service and has decided to write the store or to leave it.
C22_Terminates ==
    <>(pc = "done" /\ Reconciled = 1..Len(data.services))

\* a finished run over two services whose HTTP requests all timed out:
\* probes are gone, the store was written
C22_Witness ==
    /\ pc = "done"
    /\ Len(data.services) = 2
    /\ Reconciled = {1, 2}
    /\ writes = 1
    /\ \A i \in 1..2 :
          ResultOf(TestsOf(data, i), "apex_domain") = "false"

-----------------------------------------------------------------------------
(* C23 *)

\* this step starts the three probes of hostname variant v
ProbesStarted(v) ==
    /\ probes'[v] # probes[v]
    /\ probes'[v] = ProbesOf(domains'[v])
    /\ probes'[v].issued

\* C23: services are handled one at a time in the order of the registry:
\* the loop position starts at 1 and moves on by one exactly when a loop
\* body ends; probes are started only by the head of the loop body, for
\* the hostnames of the service at the loop position, when the loop
\* bodies of all services before it have ended and no service from it on
\* has been touched; a loop body that has started its probes never
\* starts probes again.
C23_Sequential ==
    [][/\ \A v \in Variants :
             ProbesStarted(v) =>
                 /\ pc = "loop" /\ pc' = "await" /\ idx' = idx
                 /\ domains' = getDomainVariants(loaded.services[idx].url)
                 /\ \A i \in 1..(idx - 1) :
                       data.services[i].ipv6.last_checked = now
                 /\ \A i \in idx..Len(data.services) :
                       data.services[i] = loaded.services[i]
       /\ idx' # idx =>
             \/ pc = "start" /\ idx' = 1
             \/ pc = "await" /\ pc' = "loop" /\ idx' = idx + 1
       /\ (pc = "await" /\ pc' # "await") => idx' = idx + 1]_vars

\* the probes of the second service have just been started, all pending,
\* after the loop body of the first one, whose requests failed, has ended
C23_Witness ==
    /\ pc = "await"
    /\ idx = 2
    /\ probes = IssueProbes(domains)
    /\ probes.apex.issued
    /\ data.services[1].ipv6.last_checked = now
    /\ ResultOf(TestsOf(data, 1), "apex_domain") = "false"
    /\ data.services[2] = loaded.services[2]

-----------------------------------------------------------------------------
(* C24 *)

\* C24: a run made again on the same loaded registry with the same probe
\* outcomes and any other choice of --verbose and --detail ends as the
\* first one did: it completes or aborts alike, with the same tests and
\* status of every service, the same dirty services and the same decision
\* to write or not.
C24_FlagsDoNotInterfere ==
    (run = 2 /\ pc \in {"done", "aborted"}) =>
        /\ (pc = "done") = prev.completed
        /\ Len(data.services) = Len(prev.produced.services)
        /\ \A i \in 1..Len(data.services) :
              /\ TestsOf(data, i) = TestsOf(prev.produced, i)
              /\ StatusOf(data, i) = StatusOf(prev.produced, i)
        /\ dirty = prev.dirty
        /\ writes = prev.writes

\* a run without flags that wrote the store, made again with --verbose
\* and --detail: it printed a status mismatch and wrote the store too
C24_Witness ==
    /\ run = 2
    /\ pc = "done"
    /\ prev.flags = <<FALSE, FALSE>>
    /\ verboseMode /\ detailMode
    /\ warnings # {}
    /\ writes = 1
    /\ Len(data.services) = 2

-----------------------------------------------------------------------------
(* C25 *)

\* C25: the store changes in one step only, the write that follows the
\* loop: while the loop runs, and after an exception has ended the run
\* in the loop body of some service, the store is the file that was
\* loaded, byte for byte, whatever services were marked updated before.
C25_AllOrNothing ==
    /\ pc \in {"loop", "await", "aborted"} =>
          /\ writes = 0
          /\ store = FileOf(loaded)
          /\ store.header
    /\ pc = "aborted" =>
          /\ idx \in 1..Len(data.services)
          /\ data.services[idx] = loaded.services[idx]

\* the run was aborted in the loop body of the second service after the
\* first one had been changed and marked updated
C25_Witness ==
    /\ pc = "aborted"
    /\ idx = 2
    /\ dirty = {1}
    /\ updated
    /\ data.services[1] # loaded.services[1]
    /\ store.doc = loaded

-----------------------------------------------------------------------------
(* C26 *)

\* the outcome of the probes of hostname variant v, read from the events
\* that settled them
EventOutcome(v) ==
    IF probes[v].issued
    THEN [hasAAAA |-> probes[v].aaaa[1].event.ok,
          httpWorks |-> probes[v].http[1].event.type = "response"]
    ELSE NoOutcome

\* C26: the loop body goes on only with all the probes of the service
\* settled, and what it makes of the service (tests, status,
\* last_checked) and whether it marks it updated is a function of the
\* loaded service and of the events that settled the probes, hence the
\* same for every order in which they settled.
C26_OrderIndependent ==
    JustReconciled =>
        /\ Settled(probes.apex) /\ Settled(probes.www)
        /\ LET service == loaded.services[Last]
               d == getDomainVariants(service.url)
               aInfo == checkDomain(d.apex, EventOutcome("apex"))
               wInfo == checkDomain(d.www, EventOutcome("www"))
           IN  /\ data.services[Last]
                    = ReconcileService(service, d, aInfo, wInfo, now)
               /\ Last \in dirty <=> ServiceUpdated(service, d, aInfo, wInfo)

\* AAAA and HTTP answered for the www hostname only, the A lookups
\* failed: the service is updated and partial
C26_Witness ==
    /\ JustReconciled
    /\ probes.www.issued
    /\ EventOutcome("www") = [hasAAAA |-> TRUE, httpWorks |-> TRUE]
    /\ EventOutcome("apex") = [hasAAAA |-> FALSE, httpWorks |-> TRUE]
    /\ ~probes.apex.a[1].event.ok
    /\ Last \in dirty
    /\ StatusOf(data, Last) = "partial"

-----------------------------------------------------------------------------
(* C27 *)

ReconciledIds == CurrentIds \cup LegacyIds

\* the stored tests the loop body keeps: all but a www_domain test of a
\* service to which no www variant applies
KeptTests(old) ==
    SelectSeq(old, LAMBDA t : ~(t.id = "www_domain" /\ domains.www = NoHost))

\* the id a stored test has after the loop body
IdAfter(old, id) ==
    IF id = "aaaa_record" /\ ApexToMigrate(old) THEN "apex_domain"
    ELSE IF id = "www_variant" /\ WwwToMigrate(old) THEN "www_domain"
    ELSE id

\* the ids of the tests the loop body creates, in the order of creation
CreatedIds(old) ==
    (IF HasTest(old, "apex_domain") \/ HasTest(old, "aaaa_record")
     THEN <<>> ELSE <<"apex_domain">>)
    \o (IF domains.www = NoHost \/ HasTest(old, "www_domain")
           \/ HasTest(old, "www_variant")
        THEN <<>> ELSE <<"www_domain">>)

\* the tests after the loop body are the kept stored tests, in their
\* order, those with other ids untouched and the migrated ones renamed in
\* place, followed by the created tests
TestsFramed(old, new) ==
    LET kept == KeptTests(old)
        created == CreatedIds(old)
    IN  /\ Len(new) = Len(kept) + Len(created)
        /\ \A k \in 1..Len(kept) :
              /\ new[k].id = IdAfter(old, kept[k].id)
              /\ kept[k].id \notin ReconciledIds => new[k] = kept[k]
        /\ \A k \in 1..Len(created) : new[Len(kept) + k].id = created[k]

\* C27 as stated: tests with other ids are never modified or removed and
\* keep their order, a migrated test keeps its position (its index in
\* the tests), created tests are appended, apex_domain before www_domain,
\* and the removal of www_domain does not reorder the other tests.
C27_Claim ==
    JustReconciled =>
        LET old == TestsOf(loaded, Last)
            new == TestsOf(data, Last)
        IN  /\ TestsFramed(old, new)
            /\ ApexToMigrate(old)
                  => FindTest(new, "apex_domain") = FindTest(old, "aaaa_record")
            /\ WwwToMigrate(old)
                  => FindTest(new, "www_domain") = FindTest(old, "www_variant")

\* C27 amended: the same, where a migrated test keeps its position among
\* the tests that are kept: its index is one less than before when a
\* www_domain test stored in front of it is removed.
C27_TestsFrame ==
    JustReconciled =>
        LET old == TestsOf(loaded, Last)
            new == TestsOf(data, Last)
            m == FindTest(old, "aaaa_record")
        IN  /\ TestsFramed(old, new)
            /\ ApexToMigrate(old)
                  => FindTest(new, "apex_domain")
                       = IF WwwRemovedBefore(old, m) THEN m - 1 ELSE m
            /\ WwwToMigrate(old)
                  => FindTest(new, "www_domain") = FindTest(old, "www_variant")

\* a stored test with another id between a removed www_domain and
\* nothing else: it is now first, untouched, and apex_domain was
\* appended after it
C27_Witness ==
    /\ JustReconciled
    /\ domains.www = NoHost
    /\ Len(TestsOf(loaded, Last)) = 2
    /\ TestsOf(loaded, Last)[1].id = "www_domain"
    /\ TestsOf(loaded, Last)[2].id = "ipv6_only"
    /\ Len(TestsOf(data, Last)) = 2
    /\ TestsOf(data, Last)[1] = TestsOf(loaded, Last)[2]
    /\ TestsOf(data, Last)[2].id = "apex_domain"

-----------------------------------------------------------------------------
(* C28 *)

Evaluated == {"true", "false"}

\* the tests have an apex_domain test with a boolean result, and a
\* boolean result in their www_domain test if they have one
NoNullResult(tests) ==
    /\ HasTest(tests, "apex_domain")
    /\ ResultOf(tests, "apex_domain") \in Evaluated
    /\ HasTest(tests, "www_domain")
          => ResultOf(tests, "www_domain") \in Evaluated

\* C28: once the loop body of a service has run, its apex_domain test
\* exists with result true or false and its www_domain test, if any, has
\* result true or false, in the working registry and in the written
\* store; a service for which a test was created is marked updated.
C28_NoNullSurvives ==
    /\ \A i \in Reconciled : NoNullResult(TestsOf(data, i))
    /\ (pc = "done" /\ writes = 1) =>
          \A i \in 1..Len(store.doc.services) :
              NoNullResult(TestsOf(store.doc, i))
    /\ JustReconciled =>
          (CreatedIds(TestsOf(loaded, Last)) # <<>> => Last \in dirty)
    /\ \A i \in Reconciled :
          Len(TestsOf(data, i)) > Len(TestsOf(loaded, i)) => i \in dirty

\* a service stored with a null apex_domain result and no www test, whose
\* probes all failed: both results are false and the service is updated
C28_Witness ==
    /\ JustReconciled
    /\ TestsOf(loaded, Last) = <<StoredTest("apex_domain", "null")>>
    /\ ~apexInfo.hasAAAA
    /\ domains.www # NoHost
    /\ ~wwwInfo.hasAAAA
    /\ ResultOf(TestsOf(data, Last), "apex_domain") = "false"
    /\ ResultOf(TestsOf(data, Last), "www_domain") = "false"
    /\ Last \in dirty

-----------------------------------------------------------------------------
(* analyze-status.js: the status suggested for a service from its tests   *)

\* const mainWorks = mainTest && mainTest.result === true, for the test
\* found by id (undefined, hence falsy, when there is no such test)
AnalyzeWorks(tests, id) ==
    FindTest(tests, id) # 0 /\ tests[FindTest(tests, id)].result = "true"

\* let suggested, from the tests with ids aaaa_record and www_variant
AnalyzeSuggested(tests) ==
    LET mainWorks == AnalyzeWorks(tests, "aaaa_record")
        wwwWorks == AnalyzeWorks(tests, "www_variant")
    IN  IF mainWorks /\ wwwWorks THEN "full"
        ELSE IF mainWorks \/ wwwWorks THEN "partial"
        ELSE "none"

-----------------------------------------------------------------------------
(* C29 *)

\* the checker's suggestedStatus computed from reconciled tests alone
CheckerSuggested(tests) ==
    SuggestedStatus(Truthy(ResultOf(tests, "apex_domain")),
                    HasTest(tests, "www_domain"),
                    IF HasTest(tests, "www_domain")
                    THEN ResultOf(tests, "www_domain") ELSE "null")

\* C29: for every service of a registry written by a run, the status
\* analyze-status.js suggests from the tests equals the status the
\* checker's suggestedStatus rule gives for the same tests.
C29_Claim ==
    (pc = "done" /\ writes = 1) =>
        \A i \in 1..Len(store.doc.services) :
            AnalyzeSuggested(TestsOf(store.doc, i))
                = CheckerSuggested(TestsOf(store.doc, i))

-----------------------------------------------------------------------------
(* C30 *)

Final(r) == r.status \in {200, 404}

\* C30: following the worker's 301 redirects, a client follows at most two
\* of them and then gets a response that is not a redirect; every redirect
\* keeps the path and the query of the request it answers and the first
\* one of two only changes http to https; an https request for
\* areweipv6yet.com is not redirected; no request is redirected to itself.
C30_RedirectChain ==
    /\ [](/\ redirects <= 2
          /\ response.status \in {0, 200, 301, 404}
          /\ response.status = 301 =>
                /\ URL(response.location).pathname = URL(request).pathname
                /\ URL(response.location).search = URL(request).search
                /\ response.location # request
                /\ redirects < 2
                /\ URL(request).protocol = "http:" =>
                      /\ URL(response.location).protocol = "https:"
                      /\ URL(response.location).hostname
                            = URL(request).hostname
                /\ URL(request).protocol = "https:" =>
                      URL(response.location) =
                          [URL(request) EXCEPT !.hostname = primaryDomain]
          /\ (/\ response # NoResponse
              /\ URL(request).protocol = "https:"
              /\ URL(request).hostname = primaryDomain) => Final(response))
    /\ <>Final(response)

\* an http request for a www host with a query has been redirected twice
\* and is served from areweipv6yet.com with its path and query
C30_Witness ==
    /\ redirects = 2
    /\ request = Href([protocol |-> "https:", hostname |-> primaryDomain,
                       pathname |-> "/api.json", search |-> "?q=1"])
    /\ response.status = 200

=============================================================================
